---- MODULE Spec2Model ----
(***************************************************************************)
(* A model of the two simple modules of the routing example:               *)
(*   BurstyApp (src/BurstyApp.cc) - the bursty traffic source, an FSM      *)
(*     driven by the self-messages startStopBurst and sendMessage;         *)
(*   Routing   (src/Routing.cc)   - static routing table set-up and the    *)
(*     per-packet forwarding decision.                                     *)
(* Every action is one whole event handler (initialize / handleMessage).   *)
(* Spec is the specification of BurstyApp.                                 *)
(***************************************************************************)
EXTENDS Integers, Sequences, FiniteSets, TLC

\* ------------------------------------------------------------------ bounds
\* Timer events later than MaxTime are not delivered.
MaxTime == 16
\* At most MaxReceived inbound packets are delivered to the application.
MaxReceived == 2

\* Values the volatile duration parameters can yield (strictly positive).
SleepTimes == {1, 10}
BurstTimes == {2, 5}
SendIaTimes == {1, 2}
\* par("destAddresses") of the application.
destAddresses == <<1, 2>>

\* -------------------------------------------------- BurstyApp: constants
\* enum of BurstyApp: FSM_Steady(n) = n, FSM_Transient(n) = -n.
INIT == 0
SLEEP == 1
ACTIVE == 2
SEND == -1

\* Arrival time of a cMessage that is not in the future event set.
NotScheduled == -1

NoError == "none"
InvalidEvent == "invalid event in state ACTIVE"
AlreadyScheduled == "scheduleAt(): message is currently scheduled"
InfiniteLoop == "FSM: infinite loop in transient states"

VARIABLES
    \* BurstyApp and the part of the kernel it uses
    fsm,             \* cFSM fsm: the state number
    startStopBurst,  \* arrival time of the phase-boundary timer, or NotScheduled
    sendMessage,     \* arrival time of the inter-send timer, or NotScheduled
    lastScheduled,   \* the timer inserted last into the future event set
    pkCounter,       \* sequence counter of generatePacket
    numReceived,     \* packets handed to processPacket
    now,             \* simTime()
    error,           \* the cRuntimeError that ended the run, or NoError
    \* what the most recent handler did (observations, not program state)
    event,           \* "none" | "startStopBurst" | "sendMessage" | "packet"
    pre,             \* fsm, timers and counters when that handler started
    sent,            \* packets sent on "out" by that handler, in order
    drawn,           \* parameter values drawn by that handler, in order
    ops,             \* scheduleAt / cancelEvent calls of that handler, in order
    \* Routing and its environment
    topo,            \* the network: out-gate wiring and address of every node
    self,            \* the node this Routing module belongs to
    centralRouting,  \* par("centralRouting")
    myAddress,       \* Routing::myAddress
    rtable,          \* Routing::rtable, destaddr -> gateindex
    stage,           \* "constructed" | "initialized" | "aborted"
    routeMsgs,       \* ROUTE_UPDATE copies sent by initialize, in order
    msgIn,           \* the message the most recent handleMessage got
    output,          \* what that handler sent, emitted and deleted
    journey          \* where the packet being followed entered and has been

appVars == <<fsm, startStopBurst, sendMessage, lastScheduled, pkCounter,
             numReceived, now, error, event, pre, sent, drawn, ops>>
routingVars == <<topo, self, centralRouting, myAddress, rtable, stage,
                 routeMsgs, msgIn, output, journey>>
vars == <<fsm, startStopBurst, sendMessage, lastScheduled, pkCounter,
          numReceived, now, error, event, pre, sent, drawn, ops,
          topo, self, centralRouting, myAddress, rtable, stage, routeMsgs,
          msgIn, output, journey>>

\* ------------------------------------------- kernel services used by the app
\* The handler works on a record s: the module's fields, the two timers and
\* what the handler has emitted so far.  A thrown cRuntimeError ends it.

Raise(s, e) == [s EXCEPT !.error = e]

\* volatile parameter read: cPar::doubleValue() yields v
doubleValue(s, name, v) == [s EXCEPT !.drawn = Append(@, [par |-> name, val |-> v])]

\* cSimpleModule::scheduleAt(t, msg): msg must not be scheduled already
scheduleAt(s, t, msg) ==
    LET s1 == [s EXCEPT !.ops = Append(@, [op |-> "schedule", timer |-> msg,
                                            pending |-> s[msg] # NotScheduled])]
    IN IF s[msg] # NotScheduled THEN Raise(s1, AlreadyScheduled)
       ELSE [s1 EXCEPT ![msg] = t, !.lastScheduled = msg]

\* cSimpleModule::cancelEvent(msg): no-op when msg is not scheduled
cancelEvent(s, msg) ==
    [s EXCEPT ![msg] = NotScheduled,
              !.ops = Append(@, [op |-> "cancel", timer |-> msg,
                                 pending |-> s[msg] # NotScheduled])]

FSM_Goto(s, state) == [s EXCEPT !.fsm = state]

\* BurstyApp::generatePacket with intuniform() yielding index k
generatePacket(s, k) ==
    [s EXCEPT !.sent = Append(@, [seq |-> s.pkCounter,
                                  dest |-> destAddresses[k + 1],
                                  at |-> s.now,
                                  fsmState |-> s.fsm]),
              !.pkCounter = @ + 1]

\* ------------------------------------------------ BurstyApp::processTimer
\* d holds the values the random draws of this handler yield:
\*   d.sleep, d.burst : sleepTime, burstTime
\*   d.ia             : sendIATime read in FSM_Enter(ACTIVE)
\*   d.ia2            : sendIATime read in FSM_Exit(ACTIVE)
\*   d.k, d.k2        : intuniform() of generatePacket in Enter / Exit(ACTIVE)

Exit_INIT_NoGoto(s, msg, d) == s

Exit_INIT(s, msg, d) == FSM_Goto(s, SLEEP)

Enter_SLEEP_NoSchedule(s, msg, d) == doubleValue(s, "sleepTime", d.sleep)

Enter_SLEEP(s, msg, d) ==
    LET s1 == doubleValue(s, "sleepTime", d.sleep)
    IN scheduleAt(s1, s1.now + d.sleep, "startStopBurst")

Exit_SLEEP_AbsoluteTime(s, msg, d) ==
    LET s1 == doubleValue(s, "burstTime", d.burst)
        s2 == scheduleAt(s1, d.burst, "startStopBurst")
    IN IF s2.error # NoError THEN s2
       ELSE IF msg # "startStopBurst" THEN Raise(s2, InvalidEvent)
       ELSE FSM_Goto(s2, ACTIVE)

Exit_SLEEP_Generates(s, msg, d) ==
    LET s1 == doubleValue(s, "burstTime", d.burst)
        s2 == scheduleAt(s1, s1.now + d.burst, "startStopBurst")
    IN IF s2.error # NoError THEN s2
       ELSE IF msg # "startStopBurst" THEN Raise(s2, InvalidEvent)
       ELSE FSM_Goto(generatePacket(s2, d.k2), ACTIVE)

Exit_SLEEP(s, msg, d) ==
    LET s1 == doubleValue(s, "burstTime", d.burst)
        s2 == scheduleAt(s1, s1.now + d.burst, "startStopBurst")
    IN IF s2.error # NoError THEN s2
       ELSE IF msg # "startStopBurst" THEN Raise(s2, InvalidEvent)
       ELSE FSM_Goto(s2, ACTIVE)

Enter_ACTIVE_NoCancel(s, msg, d) ==
    LET s1 == doubleValue(s, "sendIaTime", d.ia)
        s3 == scheduleAt(s1, s1.now + d.ia, "sendMessage")
    IN IF s3.error # NoError THEN s3
       ELSE generatePacket(s3, d.k)

Enter_ACTIVE_NoSchedule(s, msg, d) ==
    LET s1 == doubleValue(s, "sendIaTime", d.ia)
        s2 == cancelEvent(s1, "sendMessage")
    IN generatePacket(s2, d.k)

Enter_ACTIVE(s, msg, d) ==
    LET s1 == doubleValue(s, "sendIaTime", d.ia)
        s2 == cancelEvent(s1, "sendMessage")
        s3 == scheduleAt(s2, s2.now + d.ia, "sendMessage")
    IN IF s3.error # NoError THEN s3
       ELSE generatePacket(s3, d.k)

Exit_ACTIVE_NoCancel(s, msg, d) ==
    IF msg = "startStopBurst" THEN
        FSM_Goto(s, SLEEP)
    ELSE IF msg = "sendMessage" THEN
        LET s1 == generatePacket(s, d.k2)
            s2 == cancelEvent(s1, "sendMessage")
            s3 == doubleValue(s2, "sendIaTime", d.ia2)
        IN scheduleAt(s3, s3.now + d.ia2, "sendMessage")
    ELSE Raise(s, InvalidEvent)

\* the phase-boundary firing cancels the phase-boundary timer, not sendMessage
Exit_ACTIVE_CancelsPhaseTimer(s, msg, d) ==
    IF msg = "startStopBurst" THEN
        FSM_Goto(cancelEvent(s, "startStopBurst"), SLEEP)
    ELSE IF msg = "sendMessage" THEN
        LET s1 == generatePacket(s, d.k2)
            s2 == cancelEvent(s1, "sendMessage")
            s3 == doubleValue(s2, "sendIaTime", d.ia2)
        IN scheduleAt(s3, s3.now + d.ia2, "sendMessage")
    ELSE Raise(s, InvalidEvent)

\* the phase-boundary firing does not leave ACTIVE
Exit_ACTIVE_NoGoto(s, msg, d) ==
    IF msg = "startStopBurst" THEN
        cancelEvent(s, "sendMessage")
    ELSE IF msg = "sendMessage" THEN
        LET s1 == generatePacket(s, d.k2)
            s2 == cancelEvent(s1, "sendMessage")
            s3 == doubleValue(s2, "sendIaTime", d.ia2)
        IN scheduleAt(s3, s3.now + d.ia2, "sendMessage")
    ELSE Raise(s, InvalidEvent)

Exit_ACTIVE(s, msg, d) ==
    IF msg = "startStopBurst" THEN
        FSM_Goto(cancelEvent(s, "sendMessage"), SLEEP)
    ELSE IF msg = "sendMessage" THEN
        LET s1 == generatePacket(s, d.k2)
            s2 == cancelEvent(s1, "sendMessage")
            s3 == doubleValue(s2, "sendIaTime", d.ia2)
        IN scheduleAt(s3, s3.now + d.ia2, "sendMessage")
    ELSE Raise(s, InvalidEvent)

\* The switch of FSM_Switch when the loop counter is odd: exit code of the
\* current state.  A state without a case label runs no code.
ExitCode(s, msg, d) ==
    CASE s.fsm = INIT -> Exit_INIT(s, msg, d)
      [] s.fsm = SLEEP -> Exit_SLEEP(s, msg, d)
      [] s.fsm = ACTIVE -> Exit_ACTIVE(s, msg, d)
      [] OTHER -> s

\* The switch of FSM_Switch when the loop counter is even: entry code of the
\* state the FSM is in now.  There is no case FSM_Enter(INIT).
EnterCode(s, msg, d) ==
    CASE s.fsm = SLEEP -> Enter_SLEEP(s, msg, d)
      [] s.fsm = ACTIVE -> Enter_ACTIVE(s, msg, d)
      [] OTHER -> s

\* FSM_Switch(fsm): for (__i = 1; __i < 3 || (__i&1)==0 || transient; ++__i)
\* runs the exit code (__i = 1) and then the entry code (__i = 2) of whatever
\* state the FSM is in, whether or not the exit code called FSM_Goto; further
\* rounds run only while the state is transient (negative).  SEND has no case
\* label, so a transient SEND would spin until the kernel's loop limit.
FSM_Switch(s, msg, d) ==
    LET s1 == ExitCode(s, msg, d)
        s2 == IF s1.error # NoError THEN s1 ELSE EnterCode(s1, msg, d)
    IN IF s2.error = NoError /\ s2.fsm < 0 THEN Raise(s2, InfiniteLoop) ELSE s2

processTimer(s, msg, d) == FSM_Switch(s, msg, d)

\* ------------------------------------------------------ the event scheduler
Pending(t) == t # NotScheduled

\* The kernel delivers the earliest event; two events of the same time and
\* priority are delivered in the order of their insertion.
NextTimer ==
    IF Pending(startStopBurst) /\ Pending(sendMessage) THEN
        IF startStopBurst < sendMessage THEN "startStopBurst"
        ELSE IF sendMessage < startStopBurst THEN "sendMessage"
        ELSE IF lastScheduled = "sendMessage" THEN "startStopBurst"
        ELSE "sendMessage"
    ELSE IF Pending(startStopBurst) THEN "startStopBurst"
    ELSE IF Pending(sendMessage) THEN "sendMessage"
    ELSE "none"

TimerTime(msg) == IF msg = "startStopBurst" THEN startStopBurst ELSE sendMessage

\* The draws a handler makes depend on the cases it runs: a value that is not
\* drawn by the handler of msg in state f is fixed to 0.

Draws(f, msg) ==
    LET toSleep == f = INIT \/ (f = ACTIVE /\ msg = "startStopBurst")
        toActive == f = SLEEP \/ (f = ACTIVE /\ msg = "sendMessage")
        resend == f = ACTIVE /\ msg = "sendMessage"
        indexes == 0 .. (Len(destAddresses) - 1)
    IN [sleep : IF toSleep THEN SleepTimes ELSE {0},
        burst : IF f = SLEEP THEN BurstTimes ELSE {0},
        ia : IF toActive THEN SendIaTimes ELSE {0},
        ia2 : IF resend THEN SendIaTimes ELSE {0},
        k : IF toActive THEN indexes ELSE {0},
        k2 : IF resend THEN indexes ELSE {0}]

Snapshot ==
    [fsm |-> fsm, startStopBurst |-> startStopBurst, sendMessage |-> sendMessage,
     pkCounter |-> pkCounter, numReceived |-> numReceived, now |-> now]

\* The module as the handler of timer msg finds it: the clock is at the
\* timer's arrival time and msg has left the future event set.
AtDelivery(msg) ==
    [fsm |-> fsm,
     startStopBurst |-> IF msg = "startStopBurst" THEN NotScheduled ELSE startStopBurst,
     sendMessage |-> IF msg = "sendMessage" THEN NotScheduled ELSE sendMessage,
     lastScheduled |-> lastScheduled,
     pkCounter |-> pkCounter,
     now |-> TimerTime(msg),
     error |-> NoError,
     sent |-> <<>>,
     drawn |-> <<>>,
     ops |-> <<>>]

\* BurstyApp::initialize
AppInit ==
    /\ fsm = INIT
    /\ startStopBurst = 0
    /\ sendMessage = NotScheduled
    /\ lastScheduled = "startStopBurst"
    /\ pkCounter = 0
    /\ numReceived = 0
    /\ now = 0
    /\ error = NoError
    /\ event = "none"
    /\ pre = [fsm |-> INIT, startStopBurst |-> NotScheduled, sendMessage |-> NotScheduled,
              pkCounter |-> 0, numReceived |-> 0, now |-> 0]
    /\ sent = <<>>
    /\ drawn = <<>>
    /\ ops = <<>>

\* BurstyApp::handleMessage for a self-message
HandleTimer(msg) ==
    /\ error = NoError
    /\ NextTimer = msg
    /\ TimerTime(msg) <= MaxTime
    /\ \E d \in Draws(fsm, msg) :
         \E s \in {processTimer(AtDelivery(msg), msg, d)} :
         /\ fsm' = s.fsm
         /\ startStopBurst' = s.startStopBurst
         /\ sendMessage' = s.sendMessage
         /\ lastScheduled' = s.lastScheduled
         /\ pkCounter' = s.pkCounter
         /\ now' = s.now
         /\ error' = s.error
         /\ sent' = s.sent
         /\ drawn' = s.drawn
         /\ ops' = s.ops
    /\ event' = msg
    /\ pre' = Snapshot
    /\ UNCHANGED numReceived

FireStartStopBurst == HandleTimer("startStopBurst") /\ UNCHANGED routingVars

FireSendMessage == HandleTimer("sendMessage") /\ UNCHANGED routingVars

\* The module as the handler of a packet arriving at time t finds it.
AtArrival(t) ==
    [fsm |-> fsm,
     startStopBurst |-> startStopBurst,
     sendMessage |-> sendMessage,
     lastScheduled |-> lastScheduled,
     pkCounter |-> pkCounter,
     numReceived |-> numReceived,
     now |-> t,
     error |-> NoError,
     sent |-> <<>>,
     drawn |-> <<>>,
     ops |-> <<>>]

\* a received packet stops the current burst's sending
processPacket_CancelsSend(s) ==
    [cancelEvent(s, "sendMessage") EXCEPT !.numReceived = @ + 1]

\* BurstyApp::processPacket: the statistics it emits are no state of the
\* module; it counts the packet and deletes it.
processPacket(s) == [s EXCEPT !.numReceived = @ + 1]

\* BurstyApp::handleMessage for a packet arriving on "in" (processPacket).
\* A packet can only arrive after some application has sent one, that is,
\* after the time-0 timers of all applications have been handled; it arrives
\* no later than the next timer of this module.
ReceivePacket ==
    /\ error = NoError
    /\ fsm # INIT
    /\ numReceived < MaxReceived
    /\ \E t \in now .. MaxTime :
         /\ NextTimer # "none" => t <= TimerTime(NextTimer)
         /\ LET s == processPacket(AtArrival(t)) IN
            /\ fsm' = s.fsm
            /\ startStopBurst' = s.startStopBurst
            /\ sendMessage' = s.sendMessage
            /\ lastScheduled' = s.lastScheduled
            /\ pkCounter' = s.pkCounter
            /\ numReceived' = s.numReceived
            /\ now' = s.now
            /\ error' = s.error
            /\ sent' = s.sent
            /\ drawn' = s.drawn
            /\ ops' = s.ops
    /\ event' = "packet"
    /\ pre' = Snapshot
    /\ UNCHANGED routingVars

\* ======================================================================
\* Routing (src/Routing.cc)
\* ======================================================================

\* ------------------------------------------------------------------ bounds
\* hopCount of an inbound packet is at most MaxHopCount.
MaxHopCount == 2

\* Byte lengths of inbound packets.
ByteLengths == {64, 1500}

\* The address of the node that computes the routes in centralized mode.
RootAddress == 0

CastError == "check_and_cast(): cannot cast (omnetpp::cMessage *) to type 'Packet *'"

\* A network: node indices 0 .. n-1 as cTopology numbers them; outs[i+1] lists,
\* by gate index, the node each out gate of node i is connected to; addrs[i+1]
\* is the "address" parameter of node i.
Net(outs, addrs) ==
    [out |-> [n \in 0 .. (Len(outs) - 1) |-> outs[n + 1]],
     address |-> [n \in 0 .. (Len(addrs) - 1) |-> addrs[n + 1]]]

\* a line 0 - 1 - 2
LineNet == Net(<< <<1>>, <<0, 2>>, <<1>> >>, <<0, 1, 2>>)
\* a diamond: two minimum-hop paths between 0 and 3, and between 1 and 2
DiamondNet == Net(<< <<1, 2>>, <<0, 3>>, <<3, 0>>, <<2, 1>> >>, <<0, 1, 2, 3>>)
\* five nodes; node 4 has a link to node 3 but no link leads to it
OneWayNet == Net(<< <<1, 2>>, <<0, 3>>, <<0>>, <<1>>, <<3>> >>, <<0, 1, 2, 3, 4>>)
\* a line whose two end nodes were configured with the same address
SharedAddressNet == Net(<< <<1>>, <<0, 2>>, <<1>> >>, <<7, 0, 7>>)

Topologies == {LineNet, DiamondNet, OneWayNet, SharedAddressNet}

Nodes(T) == DOMAIN T.out
getNumNodes(T) == Cardinality(Nodes(T))
Addresses(T) == {T.address[n] : n \in Nodes(T)}

\* ---------------------------------------------------------------- cTopology
\* The links of the extracted topology: for every node in index order, one
\* link per connected out gate in gate order.
RECURSIVE LinksFrom(_, _)
LinksFrom(T, n) ==
    IF n >= getNumNodes(T) THEN <<>>
    ELSE [g \in 1 .. Len(T.out[n]) |-> [src |-> n, gate |-> g - 1, dst |-> T.out[n][g]]]
         \o LinksFrom(T, n + 1)

\* inLinks of node v, in the order extraction appends them.
InLinks(T, v) == SelectSeq(LinksFrom(T, 0), LAMBDA l : l.dst = v)

\* the out path of a node is overwritten by every later in-link that leads to it
RECURSIVE Relax_LastFound(_, _, _)
Relax_LastFound(links, v, st) ==
    IF links = <<>> THEN st
    ELSE LET l == Head(links)
             w == l.src
         IN IF w \notin DOMAIN st.dist
            THEN Relax_LastFound(Tail(links), v,
                       [dist |-> st.dist @@ (w :> (st.dist[v] + 1)),
                        outPath |-> st.outPath @@ (w :> l),
                        q |-> Append(st.q, w)])
            ELSE Relax_LastFound(Tail(links), v,
                       [st EXCEPT !.outPath = (w :> l) @@ @])

\* The inner loop of the search: every in-link of v whose remote node has no
\* distance yet gives that node its distance, its out path and a queue place.
RECURSIVE Relax(_, _, _)
Relax(links, v, st) ==
    IF links = <<>> THEN st
    ELSE LET l == Head(links)
             w == l.src
         IN IF w \notin DOMAIN st.dist
            THEN Relax(Tail(links), v,
                       [dist |-> st.dist @@ (w :> (st.dist[v] + 1)),
                        outPath |-> st.outPath @@ (w :> l),
                        q |-> Append(st.q, w)])
            ELSE Relax(Tail(links), v, st)

RECURSIVE Search(_, _)
Search(T, st) ==
    IF st.q = <<>> THEN st
    ELSE LET v == Head(st.q)
         IN Search(T, Relax(InLinks(T, v), v, [st EXCEPT !.q = Tail(@)]))

\* cTopology::calculateUnweightedSingleShortestPathsTo(target): breadth-first
\* search from target along in-links.  dist is defined on the nodes that have
\* a finite distance, outPath on the nodes that have a path.
calculateUnweightedSingleShortestPathsTo(T, target) ==
    Search(T, [dist |-> (target :> 0), outPath |-> <<>>, q |-> <<target>>])

getNumPaths(paths, n) == IF n \in DOMAIN paths.outPath THEN 1 ELSE 0

\* thisNode->getPath(0)->getLocalGate()->getIndex()
gateIndexOf(paths, n) == paths.outPath[n].gate

\* ------------------------------------------------------ Routing::initialize
\* an unreachable destination is stored with gate index -1
RECURSIVE BuildTable_Sentinel(_, _, _, _)
BuildTable_Sentinel(T, thisNode, i, table) ==
    IF i >= getNumNodes(T) THEN table
    ELSE IF i = thisNode THEN BuildTable_Sentinel(T, thisNode, i + 1, table)
    ELSE LET paths == calculateUnweightedSingleShortestPathsTo(T, i)
         IN BuildTable_Sentinel(T, thisNode, i + 1,
                     [a \in (DOMAIN table) \cup {T.address[i]} |->
                         IF a = T.address[i]
                         THEN IF getNumPaths(paths, thisNode) = 0 THEN -1
                              ELSE gateIndexOf(paths, thisNode)
                         ELSE table[a]])

\* The loop of the distributed branch from node index i on; table is rtable.
RECURSIVE BuildTable(_, _, _, _)
BuildTable(T, thisNode, i, table) ==
    IF i >= getNumNodes(T) THEN table
    ELSE IF i = thisNode THEN BuildTable(T, thisNode, i + 1, table)
    ELSE LET paths == calculateUnweightedSingleShortestPathsTo(T, i)
         IN IF getNumPaths(paths, thisNode) = 0
            THEN BuildTable(T, thisNode, i + 1, table)
            ELSE BuildTable(T, thisNode, i + 1,
                     [a \in (DOMAIN table) \cup {T.address[i]} |->
                         IF a = T.address[i] THEN gateIndexOf(paths, thisNode)
                         ELSE table[a]])

\* an unreachable destination is listed with gate index -1
RECURSIVE BuildRoutes_Sentinel(_, _, _, _)
BuildRoutes_Sentinel(T, thisNode, i, routes) ==
    IF i >= getNumNodes(T) THEN routes
    ELSE IF i = thisNode THEN BuildRoutes_Sentinel(T, thisNode, i + 1, routes)
    ELSE LET paths == calculateUnweightedSingleShortestPathsTo(T, i)
         IN BuildRoutes_Sentinel(T, thisNode, i + 1,
                Append(routes, [dest |-> T.address[i],
                                gate |-> IF getNumPaths(paths, thisNode) = 0 THEN -1
                                         ELSE gateIndexOf(paths, thisNode)]))

\* The loop of the centralized branch from node index i on; routes is the
\* listing "dest:gate,dest:gate,..." as the sequence of its entries.
RECURSIVE BuildRoutes(_, _, _, _)
BuildRoutes(T, thisNode, i, routes) ==
    IF i >= getNumNodes(T) THEN routes
    ELSE IF i = thisNode THEN BuildRoutes(T, thisNode, i + 1, routes)
    ELSE LET paths == calculateUnweightedSingleShortestPathsTo(T, i)
         IN IF getNumPaths(paths, thisNode) = 0
            THEN BuildRoutes(T, thisNode, i + 1, routes)
            ELSE BuildRoutes(T, thisNode, i + 1,
                     Append(routes, [dest |-> T.address[i],
                                     gate |-> gateIndexOf(paths, thisNode)]))

\* Routing::initialize of the module in node thisNode: the fields it sets and
\* the messages it sends.
initialize(T, thisNode, central) ==
    LET address == T.address[thisNode] IN
    IF central THEN
        IF address = RootAddress THEN
            LET routes == BuildRoutes(T, thisNode, 0, <<>>) IN
            [myAddress |-> address,
             rtable |-> <<>>,
             routeMsgs |-> [g \in 1 .. Len(T.out[thisNode]) |->
                               [gate |-> g - 1, name |-> "ROUTE_UPDATE",
                                routingInfo |-> routes]]]
        ELSE [myAddress |-> address, rtable |-> <<>>, routeMsgs |-> <<>>]
    ELSE [myAddress |-> address,
          rtable |-> BuildTable(T, thisNode, 0, <<>>),
          routeMsgs |-> <<>>]

\* --------------------------------------------------- Routing::handleMessage
NoMessage == [kind |-> "none"]

\* sends, emits: the send() and emit() calls in order; deleted: the message
\* was deleted; pk: the message as the handler left it.
Quiet == [error |-> NoError, sends |-> <<>>, emits |-> <<>>, deleted |-> FALSE,
          pk |-> NoMessage]

\* table lookup before the local-delivery check
handleMessage_LookupFirst(address, table, msg) ==
    IF msg.kind # "Packet" THEN
        [rtable |-> table, out |-> [Quiet EXCEPT !.error = CastError, !.pk = msg]]
    ELSE IF msg.destAddr \in DOMAIN table THEN
        LET outGateIndex == table[msg.destAddr]
            pk == [msg EXCEPT !.hopCount = @ + 1]
        IN [rtable |-> table,
            out |-> [Quiet EXCEPT
                       !.emits = <<[signal |-> "outputIf", value |-> outGateIndex]>>,
                       !.sends = <<[gate |-> "out", index |-> outGateIndex, pk |-> pk]>>,
                       !.pk = pk]]
    ELSE IF msg.destAddr = address THEN
        [rtable |-> table,
         out |-> [Quiet EXCEPT
                    !.sends = <<[gate |-> "localOut", index |-> 0, pk |-> msg]>>,
                    !.emits = <<[signal |-> "outputIf", value |-> -1]>>,
                    !.pk = msg]]
    ELSE
        [rtable |-> table,
         out |-> [Quiet EXCEPT
                    !.emits = <<[signal |-> "drop", value |-> msg.byteLength]>>,
                    !.deleted = TRUE,
                    !.pk = msg]]

\* an absent destination is sent on gate 0 as a default route
handleMessage_DefaultRoute(address, table, msg) ==
    IF msg.kind # "Packet" THEN
        [rtable |-> table, out |-> [Quiet EXCEPT !.error = CastError, !.pk = msg]]
    ELSE IF msg.destAddr = address THEN
        [rtable |-> table,
         out |-> [Quiet EXCEPT
                    !.sends = <<[gate |-> "localOut", index |-> 0, pk |-> msg]>>,
                    !.emits = <<[signal |-> "outputIf", value |-> -1]>>,
                    !.pk = msg]]
    ELSE
        LET outGateIndex == IF msg.destAddr \in DOMAIN table THEN table[msg.destAddr] ELSE 0
            pk == [msg EXCEPT !.hopCount = @ + 1]
        IN [rtable |-> table,
            out |-> [Quiet EXCEPT
                       !.emits = <<[signal |-> "outputIf", value |-> outGateIndex]>>,
                       !.sends = <<[gate |-> "out", index |-> outGateIndex, pk |-> pk]>>,
                       !.pk = pk]]

\* the forwarding branch without the hop count increment
handleMessage_NoHopIncrement(address, table, msg) ==
    IF msg.kind # "Packet" THEN
        [rtable |-> table, out |-> [Quiet EXCEPT !.error = CastError, !.pk = msg]]
    ELSE IF msg.destAddr = address THEN
        [rtable |-> table,
         out |-> [Quiet EXCEPT
                    !.sends = <<[gate |-> "localOut", index |-> 0, pk |-> msg]>>,
                    !.emits = <<[signal |-> "outputIf", value |-> -1]>>,
                    !.pk = msg]]
    ELSE IF msg.destAddr \notin DOMAIN table THEN
        [rtable |-> table,
         out |-> [Quiet EXCEPT
                    !.emits = <<[signal |-> "drop", value |-> msg.byteLength]>>,
                    !.deleted = TRUE,
                    !.pk = msg]]
    ELSE
        LET outGateIndex == table[msg.destAddr]
        IN [rtable |-> table,
            out |-> [Quiet EXCEPT
                       !.emits = <<[signal |-> "outputIf", value |-> outGateIndex]>>,
                       !.sends = <<[gate |-> "out", index |-> outGateIndex, pk |-> msg]>>,
                       !.pk = msg]]

\* the lookup done with rtable[destAddr], which inserts an absent key
handleMessage_InsertsKey(address, table, msg) ==
    IF msg.kind # "Packet" THEN
        [rtable |-> table, out |-> [Quiet EXCEPT !.error = CastError, !.pk = msg]]
    ELSE IF msg.destAddr = address THEN
        [rtable |-> table,
         out |-> [Quiet EXCEPT
                    !.sends = <<[gate |-> "localOut", index |-> 0, pk |-> msg]>>,
                    !.emits = <<[signal |-> "outputIf", value |-> -1]>>,
                    !.pk = msg]]
    ELSE IF msg.destAddr \notin DOMAIN table THEN
        [rtable |-> [a \in (DOMAIN table) \cup {msg.destAddr} |->
                        IF a \in DOMAIN table THEN table[a] ELSE 0],
         out |-> [Quiet EXCEPT
                    !.emits = <<[signal |-> "drop", value |-> msg.byteLength]>>,
                    !.deleted = TRUE,
                    !.pk = msg]]
    ELSE
        LET outGateIndex == table[msg.destAddr]
            pk == [msg EXCEPT !.hopCount = @ + 1]
        IN [rtable |-> table,
            out |-> [Quiet EXCEPT
                       !.emits = <<[signal |-> "outputIf", value |-> outGateIndex]>>,
                       !.sends = <<[gate |-> "out", index |-> outGateIndex, pk |-> pk]>>,
                       !.pk = pk]]

\* The result of the handler for message msg in a module with the given
\* address and table: the table afterwards and what the handler did.
handleMessage(address, table, msg) ==
    IF msg.kind # "Packet" THEN
        [rtable |-> table, out |-> [Quiet EXCEPT !.error = CastError, !.pk = msg]]
    ELSE IF msg.destAddr = address THEN
        [rtable |-> table,
         out |-> [Quiet EXCEPT
                    !.sends = <<[gate |-> "localOut", index |-> 0, pk |-> msg]>>,
                    !.emits = <<[signal |-> "outputIf", value |-> -1]>>,
                    !.pk = msg]]
    ELSE IF msg.destAddr \notin DOMAIN table THEN
        [rtable |-> table,
         out |-> [Quiet EXCEPT
                    !.emits = <<[signal |-> "drop", value |-> msg.byteLength]>>,
                    !.deleted = TRUE,
                    !.pk = msg]]
    ELSE
        LET outGateIndex == table[msg.destAddr]
            pk == [msg EXCEPT !.hopCount = @ + 1]
        IN [rtable |-> table,
            out |-> [Quiet EXCEPT
                       !.emits = <<[signal |-> "outputIf", value |-> outGateIndex]>>,
                       !.sends = <<[gate |-> "out", index |-> outGateIndex, pk |-> pk]>>,
                       !.pk = pk]]

\* Packets that can arrive: for any address of the network or an address no
\* node has.
Packets(T) ==
    [kind : {"Packet"}, destAddr : Addresses(T) \cup {99},
     hopCount : 0 .. MaxHopCount, byteLength : ByteLengths]

\* No packet is being followed through the network.
NoJourney == [src |-> -1, hopCount |-> 0, path |-> <<>>]

\* The module after Routing::initialize in node n of network T.
RoutingInitIn(T, n, central) ==
    LET r == initialize(T, n, central) IN
    /\ topo = T
    /\ self = n
    /\ centralRouting = central
    /\ myAddress = r.myAddress
    /\ rtable = r.rtable
    /\ stage = "initialized"
    /\ routeMsgs = r.routeMsgs
    /\ msgIn = NoMessage
    /\ output = Quiet
    /\ journey = NoJourney

RoutingInit ==
    \E T \in Topologies : \E n \in Nodes(T) : \E central \in BOOLEAN :
        RoutingInitIn(T, n, central)

Handle(msg) ==
    LET r == handleMessage(myAddress, rtable, msg) IN
    /\ stage = "initialized"
    /\ rtable' = r.rtable
    /\ output' = r.out
    /\ msgIn' = msg
    /\ stage' = IF r.out.error # NoError THEN "aborted" ELSE stage
    /\ UNCHANGED <<topo, self, centralRouting, myAddress, routeMsgs, journey>>
    /\ UNCHANGED appVars

\* Routing::handleMessage for a packet arriving on "in"
HandlePacket == \E pk \in Packets(topo) : Handle(pk)

\* Routing::handleMessage for the ROUTE_UPDATE message the root's initialize
\* sent on a link that leads to this node
HandleRouteUpdate ==
    /\ centralRouting
    /\ \E n \in Nodes(topo) :
         /\ topo.address[n] = RootAddress
         /\ \E g \in 1 .. Len(topo.out[n]) : topo.out[n][g] = self
    /\ Handle([kind |-> "cMessage", name |-> "ROUTE_UPDATE"])

\* BurstyApp alone: the Routing module of the node is set up and gets no message.
Init == AppInit /\ RoutingInitIn(LineNet, 0, FALSE)

Next == FireStartStopBurst \/ FireSendMessage \/ ReceivePacket

Spec == Init /\ [][Next]_vars

\* The kernel takes timer msg, the next event of the future event set, and
\* calls the module's handleMessage with it: the part of HandleTimer(msg) that
\* does not depend on what processTimer does.  HandleTimer(msg) is enabled
\* exactly when Deliver(msg) is, and every HandleTimer(msg) step is a
\* Deliver(msg) step that changes the clock or the event.
Deliver(msg) ==
    /\ error = NoError
    /\ NextTimer = msg
    /\ TimerTime(msg) <= MaxTime
    /\ now' = TimerTime(msg)
    /\ event' = msg

clock == <<now, event>>

\* BurstyApp with the kernel's event loop, which runs as long as the future
\* event set holds an event: a pending timer is delivered.
SpecLive ==
    /\ Init
    /\ [][Next]_vars
    /\ WF_clock(Deliver("startStopBurst"))
    /\ WF_clock(Deliver("sendMessage"))

\* ------------------------------------------------ a packet on its way
\* A followed packet visits at most MaxPathLen nodes.
MaxPathLen == 6

\* The Routing module of node self gets a packet from the local application or
\* from a link: the packet's way through the network starts here.
Inject ==
    /\ stage = "initialized"
    /\ journey = NoJourney
    /\ \E pk \in Packets(topo) :
         LET r == handleMessage(myAddress, rtable, pk) IN
         /\ rtable' = r.rtable
         /\ output' = r.out
         /\ msgIn' = pk
         /\ stage' = IF r.out.error # NoError THEN "aborted" ELSE stage
         /\ journey' = [src |-> self, hopCount |-> pk.hopCount, path |-> <<self>>]
    /\ UNCHANGED <<topo, self, centralRouting, myAddress, routeMsgs>>
    /\ UNCHANGED appVars

\* The packet the last handler sent on out gate g arrives at the node that
\* gate is connected to, and the Routing module of that node, set up by its own
\* initialize on the same network, handles it.
Hop ==
    /\ stage = "initialized"
    /\ journey # NoJourney
    /\ Len(journey.path) < MaxPathLen
    /\ Len(output.sends) = 1
    /\ output.sends[1].gate = "out"
    /\ LET next == topo.out[self][output.sends[1].index + 1]
           pk == output.sends[1].pk
           m == initialize(topo, next, centralRouting)
           r == handleMessage(m.myAddress, m.rtable, pk)
       IN /\ self' = next
          /\ myAddress' = m.myAddress
          /\ rtable' = r.rtable
          /\ routeMsgs' = m.routeMsgs
          /\ msgIn' = pk
          /\ output' = r.out
          /\ stage' = IF r.out.error # NoError THEN "aborted" ELSE stage
          /\ journey' = [journey EXCEPT !.path = Append(@, next)]
    /\ UNCHANGED <<topo, centralRouting>>
    /\ UNCHANGED appVars

InitNetwork == AppInit /\ RoutingInit

NextNetwork == Inject \/ Hop

\* The Routing modules of all nodes of one network and a packet among them.
SpecNetwork == InitNetwork /\ [][NextNetwork]_vars

\* Routing alone: the application is set up and gets no event.
InitRouting == AppInit /\ RoutingInit

NextRouting == HandlePacket \/ HandleRouteUpdate

SpecRouting == InitRouting /\ [][NextRouting]_vars

\* ======================================================================
\* Properties of BurstyApp (checked under Spec)
\* ======================================================================

\* The most recent handler was processTimer for timer msg, started in state f.
HandledTimer(msg, f) == event = msg /\ pre.fsm = f /\ error = NoError

\* C1: while Bursting, every firing of sendMessage generates and sends exactly
\* one packet, and its sequence counter is the next one (so the counters of
\* consecutive firings increase strictly).  The code sends two packets per
\* firing: FSM_Exit(ACTIVE) and then FSM_Enter(ACTIVE) both call generatePacket.
C1_OnePacketPerSendFiring ==
    HandledTimer("sendMessage", ACTIVE) =>
        /\ Len(sent) = 1
        /\ sent[1].seq = pre.pkCounter
        /\ pkCounter = pre.pkCounter + 1

\* C2 as stated: after Init has been left exactly one of the two timers is
\* pending between handlers, never both and never neither.
C2_ExactlyOneTimerPending ==
    fsm # INIT => (Pending(startStopBurst) # Pending(sendMessage))

\* C2 as amended: after Init has been left the phase-boundary timer is always
\* pending, and the inter-send timer is pending exactly while Bursting; so one
\* timer is pending in Sleeping, both in Bursting, and never neither.
C2_TimersByState ==
    event # "none" =>
        /\ fsm # INIT
        /\ Pending(startStopBurst)
        /\ Pending(sendMessage) <=> (fsm = ACTIVE)

C2_BothPendingWhileBursting ==
    fsm = ACTIVE /\ Pending(startStopBurst) /\ Pending(sendMessage) /\ error = NoError

\* C3: generatePacket never runs while the FSM state is Sleeping: every packet
\* is sent with the FSM in Bursting, a handler that ends in Sleeping has sent
\* nothing, and a handler that sent something ends in Bursting.
C3_NoPacketWhileSleeping ==
    /\ \A i \in 1 .. Len(sent) : sent[i].fsmState = ACTIVE
    /\ fsm = SLEEP => sent = <<>>
    /\ sent # <<>> => fsm = ACTIVE

C3_PacketOnBurstEntry ==
    /\ HandledTimer("startStopBurst", SLEEP)
    /\ Len(sent) = 1
    /\ sent[1].fsmState = ACTIVE

\* C4: whenever the FSM is Bursting between handlers the inter-send timer is
\* pending, for a time that has not passed.
C4_SendTimerPendingWhileBursting ==
    fsm = ACTIVE => (Pending(sendMessage) /\ sendMessage >= now)

C4_StillPendingAfterSendFiring ==
    HandledTimer("sendMessage", ACTIVE) /\ fsm = ACTIVE /\ Pending(sendMessage)

\* The timer of the i-th call could be pending when the call is made: it is not
\* the timer being handled, or the handler has scheduled it before.
CouldBePending(i) ==
    \/ ops[i].timer # event
    \/ \E j \in 1 .. (i - 1) : ops[j].op = "schedule" /\ ops[j].timer = ops[i].timer

\* The i-th call is preceded by a cancel of its timer with no schedule between.
CancelledBefore(i) ==
    \E k \in 1 .. (i - 1) :
        /\ ops[k].op = "cancel"
        /\ ops[k].timer = ops[i].timer
        /\ \A j \in (k + 1) .. (i - 1) : ops[j].timer # ops[i].timer

\* C5: no handler schedules a timer that is still pending (the kernel would
\* raise an error), and every schedule of a timer that could be pending is
\* preceded by a cancel of that timer in the same handler.
C5_NoDuplicateSchedule ==
    /\ error # AlreadyScheduled
    /\ \A i \in 1 .. Len(ops) :
         ops[i].op = "schedule" =>
            /\ ~ops[i].pending
            /\ CouldBePending(i) => CancelledBefore(i)

C5_RescheduledTwiceInOneHandler ==
    /\ HandledTimer("sendMessage", ACTIVE)
    /\ Cardinality({i \in 1 .. Len(ops) :
                      ops[i].op = "schedule" /\ ops[i].timer = "sendMessage"}) = 2

\* C6: between handlers the FSM state is Init, Sleeping or Bursting and never
\* SEND; it is Init exactly until the first event, which is the timer at time 0
\* and ends in Sleeping.
C6_FsmStates ==
    /\ fsm \in {INIT, SLEEP, ACTIVE}
    /\ fsm # SEND
    /\ (fsm = INIT) <=> (event = "none")
    /\ fsm = INIT => now = 0
    /\ (event # "none" /\ pre.fsm = INIT) =>
          (event = "startStopBurst" /\ now = 0 /\ fsm = SLEEP)

C6_FirstEventLeavesInit ==
    event = "startStopBurst" /\ pre.fsm = INIT /\ fsm = SLEEP

\* C7: the phase-boundary timer firing at time t in Sleeping ends in Bursting
\* with exactly one packet sent at t, the phase-boundary timer pending at
\* t + burstTime and the inter-send timer pending at t + sendIaTime.  With
\* sleepTime 10, burstTime 5, sendIaTime 1: phase timer at 10 after time 0; at
\* t = 10 packet #0 is sent, phase timer at 15, inter-send timer at 11.
C7_BurstEntry ==
    /\ HandledTimer("startStopBurst", SLEEP) =>
          /\ fsm = ACTIVE
          /\ now = pre.startStopBurst
          /\ Len(sent) = 1
          /\ sent[1].at = now
          /\ sent[1].seq = pre.pkCounter
          /\ Len(drawn) = 2
          /\ drawn[1].par = "burstTime"
          /\ drawn[2].par = "sendIaTime"
          /\ startStopBurst = now + drawn[1].val
          /\ sendMessage = now + drawn[2].val
    /\ (HandledTimer("startStopBurst", INIT)
          /\ drawn = <<[par |-> "sleepTime", val |-> 10]>>) =>
          (now = 0 /\ startStopBurst = 10)
    /\ (HandledTimer("startStopBurst", SLEEP) /\ now = 10 /\ pre.pkCounter = 0
          /\ drawn = <<[par |-> "burstTime", val |-> 5],
                       [par |-> "sendIaTime", val |-> 1]>>) =>
          /\ Len(sent) = 1
          /\ sent[1].seq = 0
          /\ sent[1].at = 10
          /\ startStopBurst = 15
          /\ sendMessage = 11

C7_ScenarioBurstAtTen ==
    /\ HandledTimer("startStopBurst", SLEEP)
    /\ now = 10
    /\ pre.pkCounter = 0
    /\ startStopBurst = 15
    /\ sendMessage = 11

\* C8: the phase-boundary timer firing at time t in Bursting ends in Sleeping
\* with the inter-send timer not pending, the phase-boundary timer pending at
\* t + sleepTime and no packet generated, also when the inter-send timer was
\* pending for the same time t.
C8_BurstEnd ==
    HandledTimer("startStopBurst", ACTIVE) =>
        /\ fsm = SLEEP
        /\ now = pre.startStopBurst
        /\ ~Pending(sendMessage)
        /\ sent = <<>>
        /\ pkCounter = pre.pkCounter
        /\ Len(drawn) = 1
        /\ drawn[1].par = "sleepTime"
        /\ startStopBurst = now + drawn[1].val

C8_BurstEndWithSendDueAtSameTime ==
    /\ HandledTimer("startStopBurst", ACTIVE)
    /\ pre.sendMessage = now
    /\ fsm = SLEEP

\* ======================================================================
\* Properties of Routing (checked under SpecRouting)
\* ======================================================================

\* The most recent handler got a Packet.
HandledPacket == msgIn.kind = "Packet"

\* C9: a packet whose destAddr is the node's own address is sent on localOut
\* and outputIf = -1 is emitted, whatever the routing table holds; it is sent
\* on no numbered gate, not deleted, and no drop is emitted.
C9_LocalDeliveryFirst ==
    (HandledPacket /\ msgIn.destAddr = myAddress) =>
        /\ output.error = NoError
        /\ output.sends = <<[gate |-> "localOut", index |-> 0, pk |-> msgIn]>>
        /\ output.emits = <<[signal |-> "outputIf", value |-> -1]>>
        /\ ~output.deleted

C9_LocalDeliveryDespiteTableEntry ==
    /\ HandledPacket
    /\ msgIn.destAddr = myAddress
    /\ myAddress \in DOMAIN rtable
    /\ Len(output.sends) = 1
    /\ output.sends[1].gate = "localOut"

\* C10: a packet whose destAddr is not the node's address and has no entry in
\* the routing table causes exactly one drop metric with the packet's byte
\* length, is deleted and sent on no gate, with its hopCount and the routing
\* table (as set-up built it) unchanged, and the run goes on.
C10_DropUnknownDestination ==
    (HandledPacket /\ msgIn.destAddr # myAddress /\ msgIn.destAddr \notin DOMAIN rtable) =>
        /\ output.error = NoError
        /\ stage = "initialized"
        /\ output.emits = <<[signal |-> "drop", value |-> msgIn.byteLength]>>
        /\ output.deleted
        /\ output.sends = <<>>
        /\ output.pk = msgIn
        /\ rtable = initialize(topo, self, centralRouting).rtable

C10_DroppedWhileOthersAreRouted ==
    /\ HandledPacket
    /\ msgIn.destAddr = 99
    /\ rtable # <<>>
    /\ output.deleted
    /\ output.emits = <<[signal |-> "drop", value |-> msgIn.byteLength]>>

\* The most recent handler forwarded its packet: the destination is not local
\* and has a table entry.
Forwarded ==
    HandledPacket /\ msgIn.destAddr # myAddress /\ msgIn.destAddr \in DOMAIN rtable

\* The most recent handler delivered its packet locally.
DeliveredLocally ==
    /\ HandledPacket
    /\ Len(output.sends) = 1
    /\ output.sends[1].gate = "localOut"

\* C11: a forwarded packet leaves with hopCount one above its hopCount at
\* ingress, on the egress the table gives for destAddr, which is also the value
\* of the outputIf metric; a packet delivered locally has destAddr equal to the
\* node's address and its hopCount unchanged.
C11_ForwardAndLocalDelivery ==
    /\ Forwarded =>
          /\ output.error = NoError
          /\ ~output.deleted
          /\ output.emits = <<[signal |-> "outputIf", value |-> rtable[msgIn.destAddr]]>>
          /\ Len(output.sends) = 1
          /\ output.sends[1].gate = "out"
          /\ output.sends[1].index = rtable[msgIn.destAddr]
          /\ output.sends[1].pk = [msgIn EXCEPT !.hopCount = msgIn.hopCount + 1]
    /\ DeliveredLocally =>
          /\ msgIn.destAddr = myAddress
          /\ output.sends[1].pk.hopCount = msgIn.hopCount
          /\ output.sends[1].pk = msgIn

C11_ForwardedOnSecondGate ==
    /\ Forwarded
    /\ rtable[msgIn.destAddr] = 1
    /\ output.sends[1].index = 1
    /\ output.sends[1].pk.hopCount = msgIn.hopCount + 1

\* ------------------------------------------------ the network as a graph
\* The nodes one link away from n.
Successors(T, n) == {T.out[n][g] : g \in 1 .. Len(T.out[n])}

\* The nodes that paths of at most k links lead to from a.
RECURSIVE WithinHops(_, _, _)
WithinHops(T, a, k) ==
    IF k = 0 THEN {a}
    ELSE LET S == WithinHops(T, a, k - 1)
         IN S \cup UNION {Successors(T, n) : n \in S}

Reachable(T, a, b) == b \in WithinHops(T, a, getNumNodes(T))

\* The number of links of a shortest path from a to b, for b reachable from a.
HopDist(T, a, b) ==
    CHOOSE k \in 0 .. getNumNodes(T) :
        /\ b \in WithinHops(T, a, k)
        /\ \A j \in 0 .. (k - 1) : b \notin WithinHops(T, a, j)

\* The nodes other than n that are reachable from n.
ReachablePeers(T, n) == {i \in Nodes(T) \ {n} : Reachable(T, n, i)}

\* Gate index g of node n is the first link of a shortest path from n to i.
FirstHopOfShortestPath(T, n, g, i) ==
    /\ g \in 0 .. (Len(T.out[n]) - 1)
    /\ Reachable(T, T.out[n][g + 1], i)
    /\ HopDist(T, T.out[n][g + 1], i) + 1 = HopDist(T, n, i)

UniqueAddresses(T) ==
    \A i, j \in Nodes(T) : T.address[i] = T.address[j] => i = j

\* C12: in centralized mode a node that is not the root ends set-up with a
\* table entry for every destination reachable from it, the one distributed
\* mode gives it.  The code builds no table at all in centralized mode.
C12_CentralizedPeerHasTable ==
    (centralRouting /\ myAddress # RootAddress) =>
        /\ \A i \in ReachablePeers(topo, self) : topo.address[i] \in DOMAIN rtable
        /\ rtable = initialize(topo, self, FALSE).rtable

\* C13: in distributed mode the keys of the routing table are exactly the
\* addresses of the other nodes reachable from this node, and every entry is
\* the index of a gate of this node that starts a minimum-hop path to a node of
\* that address; with unique addresses neither this node nor an unreachable
\* node has an entry.
C13_DistributedTable ==
    ~centralRouting =>
        /\ DOMAIN rtable = {topo.address[i] : i \in ReachablePeers(topo, self)}
        /\ \A a \in DOMAIN rtable :
              \E i \in ReachablePeers(topo, self) :
                  /\ topo.address[i] = a
                  /\ FirstHopOfShortestPath(topo, self, rtable[a], i)
        /\ UniqueAddresses(topo) =>
              /\ myAddress \notin DOMAIN rtable
              /\ \A i \in Nodes(topo) :
                    ~Reachable(topo, self, i) => topo.address[i] \notin DOMAIN rtable

C13_UnreachableNodeLeftOut ==
    /\ ~centralRouting
    /\ topo = OneWayNet
    /\ self = 0
    /\ ~Reachable(topo, self, 4)
    /\ DOMAIN rtable = {1, 2, 3}
    /\ rtable[3] = 0

\* The entries of listing L for address a.
EntriesFor(L, a) == {e \in 1 .. Len(L) : L[e].dest = a}

\* Listing L has one entry per other node reachable from node n of T and no
\* other entry, each with a gate that starts a minimum-hop path to such a node.
ListsReachablePeers(L, T, n) ==
    /\ Len(L) = Cardinality(ReachablePeers(T, n))
    /\ \A i \in ReachablePeers(T, n) :
          Cardinality(EntriesFor(L, T.address[i])) =
              Cardinality({j \in ReachablePeers(T, n) : T.address[j] = T.address[i]})
    /\ \A e \in 1 .. Len(L) :
          \E i \in ReachablePeers(T, n) :
              /\ T.address[i] = L[e].dest
              /\ FirstHopOfShortestPath(T, n, L[e].gate, i)

\* C14: in centralized mode the root sends one ROUTE_UPDATE copy on each of its
\* out gates, and the listing it carries has exactly one entry for each other
\* node reachable from the root and none for an unreachable node; with four
\* peers of which one is unreachable the listing has three entries.
C14_RootListing ==
    /\ (centralRouting /\ myAddress = RootAddress) =>
          /\ Len(routeMsgs) = Len(topo.out[self])
          /\ \A g \in 1 .. Len(routeMsgs) :
                /\ routeMsgs[g].gate = g - 1
                /\ routeMsgs[g].name = "ROUTE_UPDATE"
                /\ ListsReachablePeers(routeMsgs[g].routingInfo, topo, self)
    /\ (centralRouting /\ myAddress = RootAddress /\ topo = OneWayNet) =>
          \A g \in 1 .. Len(routeMsgs) : Len(routeMsgs[g].routingInfo) = 3

C14_FourPeersOneUnreachable ==
    /\ centralRouting
    /\ myAddress = RootAddress
    /\ topo = OneWayNet
    /\ Cardinality(Nodes(topo) \ {self}) = 4
    /\ Cardinality(ReachablePeers(topo, self)) = 3
    /\ Len(routeMsgs) = 2
    /\ Len(routeMsgs[1].routingInfo) = 3

\* C15: no handleMessage changes the routing table, whichever branch it takes;
\* a lookup of an absent destination inserts no key.
C15_TableNeverChanges == [][rtable' = rtable]_vars

C15_AbsentKeyStillAbsent ==
    /\ HandledPacket
    /\ ~centralRouting
    /\ topo = OneWayNet
    /\ msgIn.destAddr = 4
    /\ output.deleted
    /\ msgIn.destAddr \notin DOMAIN rtable
    /\ rtable # <<>>

\* ======================================================================
\* More properties of BurstyApp (checked under Spec)
\* ======================================================================

\* C16: handling an inbound packet leaves the FSM state, both timers and the
\* sequence counter as they were, sends nothing and only adds one to the
\* received counter; the FSM state changes only in handlers of the two timers.
C16_PacketLeavesFsmAlone ==
    /\ event = "packet" =>
          /\ error = NoError
          /\ fsm = pre.fsm
          /\ startStopBurst = pre.startStopBurst
          /\ sendMessage = pre.sendMessage
          /\ pkCounter = pre.pkCounter
          /\ numReceived = pre.numReceived + 1
          /\ sent = <<>>
          /\ ops = <<>>
    /\ fsm # pre.fsm => event \in {"startStopBurst", "sendMessage"}

C16_PacketDuringBurst ==
    /\ event = "packet"
    /\ fsm = ACTIVE
    /\ Pending(sendMessage)
    /\ Pending(startStopBurst)
    /\ pre.now < now
    /\ now < sendMessage
    /\ numReceived = 2

\* C17: with strictly positive durations and every pending timer delivered the
\* FSM alternates: from Sleeping it reaches Bursting and from Bursting it
\* reaches Sleeping, the inter-send firings notwithstanding (for phase-boundary
\* timers due within the time the model covers).
C17_Alternates ==
    /\ (fsm = SLEEP /\ Pending(startStopBurst) /\ startStopBurst <= MaxTime)
          ~> (fsm = ACTIVE)
    /\ (fsm = ACTIVE /\ Pending(startStopBurst) /\ startStopBurst <= MaxTime)
          ~> (fsm = SLEEP)

C17_SecondCycleAhead ==
    /\ HandledTimer("startStopBurst", ACTIVE)
    /\ fsm = SLEEP
    /\ pkCounter >= 5
    /\ startStopBurst <= MaxTime

\* C18: no run raises the "invalid event" error (or any other error of
\* processTimer): the inter-send timer is never the next event, and never
\* fires, while the FSM is Init or Sleeping, and every timer handled is one of
\* the two timers.
C18_NoInvalidEvent ==
    /\ error # InvalidEvent
    /\ error = NoError
    /\ event = "sendMessage" => pre.fsm = ACTIVE
    /\ Pending(sendMessage) => fsm = ACTIVE
    /\ event \in {"none", "startStopBurst", "sendMessage", "packet"}

C18_BothTimersDueTogether ==
    /\ HandledTimer("sendMessage", ACTIVE)
    /\ fsm = ACTIVE
    /\ sendMessage = startStopBurst
    /\ NextTimer = "startStopBurst"

\* ======================================================================
\* Properties of a packet's way through the network (checked under SpecNetwork)
\* ======================================================================

\* The nodes that have the address the followed packet is for.
Targets == {t \in Nodes(topo) : topo.address[t] = msgIn.destAddr}

\* C19: in distributed mode with unique addresses, a packet that entered at
\* node s for the address of a node t reachable from s is never dropped and
\* visits no node twice; every node it has reached so far is one hop closer to
\* t than the one before; where it is forwarded its hopCount is the one at
\* entry plus the hops made, and at t it is delivered locally with hopCount
\* raised by exactly the minimum hop distance from s to t.
C19_ShortestWalk ==
    (~centralRouting /\ UniqueAddresses(topo) /\ journey # NoJourney) =>
        \A t \in Targets :
            Reachable(topo, journey.src, t) =>
                LET path == journey.path
                    len == Len(path)
                    dist == HopDist(topo, journey.src, t)
                IN /\ output.error = NoError
                   /\ ~output.deleted
                   /\ path[len] = self
                   /\ \A i, j \in 1 .. len : path[i] = path[j] => i = j
                   /\ \A i \in 1 .. len :
                         /\ Reachable(topo, path[i], t)
                         /\ HopDist(topo, path[i], t) = dist - (i - 1)
                   /\ self # t =>
                         /\ Forwarded
                         /\ output.pk.hopCount = journey.hopCount + len
                   /\ self = t =>
                         /\ DeliveredLocally
                         /\ len = dist + 1
                         /\ output.pk.hopCount = journey.hopCount + dist

C19_DeliveredAfterTwoHops ==
    /\ ~centralRouting
    /\ UniqueAddresses(topo)
    /\ topo = DiamondNet
    /\ Len(journey.path) = 3
    /\ DeliveredLocally
    /\ HopDist(topo, journey.src, self) = 2
    /\ output.pk.hopCount = journey.hopCount + 2

\* ======================================================================
\* More properties of Routing (checked under SpecRouting)
\* ======================================================================

\* C20: every message that arrives at a Routing module, the ROUTE_UPDATE
\* message of the centralized root included, is handled without a fatal error.
\* The code casts every message to Packet, which the ROUTE_UPDATE cMessage is
\* not, so its arrival ends the run.
C20_NoFatalError ==
    /\ output.error = NoError
    /\ stage # "aborted"

====
